---- MODULE Spec2Model ----
(***************************************************************************)
(* Model of planning_keyword_extractor_app.py: the keyword parser, the     *)
(* snippet finder, the upload ingestion (gather_pdf_paths) and the scan    *)
(* action of the script.                                                   *)
(*                                                                         *)
(* Strings are sequences of one-character strings.  File names are records *)
(* [dir, base, ext]; uploaded bytes are records [fmt, pages, members].     *)
(***************************************************************************)
EXTENDS Integers, Sequences, FiniteSets, TLC

VARIABLES
    uploaded_files,   \* the uploads of the file_uploader widget
    keywords_input,   \* the text of the keyword text area
    keywords,         \* _parse_keywords(keywords_input)
    context_window,   \* the slider's value
    pc,               \* position of the script's scan action
    temp_dir,         \* "none" | "open" | "released"
    files,            \* content of the temporary directory: name -> bytes
    pdf_paths,        \* list built by gather_pdf_paths
    up_idx,           \* number of uploads gather_pdf_paths has consumed
    idx,              \* number of documents the scan loop has consumed
    results,          \* list of {File, Keyword, Snippet}
    errors,           \* st.error diagnostics, one file name each
    progress,         \* the progress bar
    outcome,          \* what the script displayed at its end
    text_in, kw_in, window_in,   \* arguments of a direct find_snippets call
    spans_out, snippets_out,     \* its match spans and its return value
    fpc                          \* "call" before it, "ret" after it

pvars == <<uploaded_files, keywords_input, keywords, context_window, pc, temp_dir,
           files, pdf_paths, up_idx, idx, results, errors, progress, outcome>>
fvars == <<text_in, kw_in, window_in, spans_out, snippets_out, fpc>>
vars == <<pvars, fvars>>

----------------------------------------------------------------------------
(* Bounds *)

MaxUploads == 2
MaxMembers == 3
MaxTextLen == 4
MaxKwLen == 3
MaxWindow == 1

(* Program constants *)

WindowDefault == 60

----------------------------------------------------------------------------
(* Strings *)

Min(a, b) == IF a < b THEN a ELSE b
Max(a, b) == IF a > b THEN a ELSE b

\* str.lower() / re.IGNORECASE on the characters of the model
Fold(c) == IF c = "A" THEN "a" ELSE IF c = "B" THEN "b" ELSE c

\* str.isspace()
IsSpace(c) == c \in {" ", "\n", "\t"}

\* Python's s[a:b] for 0 <= a, b <= len(s)
Slice(s, a, b) == SubSeq(s, a + 1, b)

RECURSIVE LStrip(_)
LStrip(s) == IF s # <<>> /\ IsSpace(Head(s)) THEN LStrip(Tail(s)) ELSE s

RECURSIVE RStrip(_)
RStrip(s) ==
    IF s # <<>> /\ IsSpace(s[Len(s)]) THEN RStrip(SubSeq(s, 1, Len(s) - 1)) ELSE s

\* str.strip()
Strip(s) == RStrip(LStrip(s))

\* s.split(","): the pieces between commas; "" splits into [""]
RECURSIVE SplitComma(_, _)
SplitComma(s, cur) ==
    IF s = <<>> THEN <<cur>>
    ELSE IF Head(s) = "," THEN <<cur>> \o SplitComma(Tail(s), <<>>)
    ELSE SplitComma(Tail(s), Append(cur, Head(s)))

RECURSIVE KeepStripped(_)
KeepStripped(parts) ==
    IF parts = <<>> THEN <<>>
    ELSE IF Strip(Head(parts)) # <<>>
         THEN <<Strip(Head(parts))>> \o KeepStripped(Tail(parts))
         ELSE KeepStripped(Tail(parts))

_parse_keywords(s) == KeepStripped(SplitComma(s, <<>>))

\* snippet.replace("\n", " ")
ReplaceNewlines(s) == [i \in 1..Len(s) |-> IF s[i] = "\n" THEN " " ELSE s[i]]

----------------------------------------------------------------------------
(* find_snippets *)

\* the escaped, IGNORECASE pattern matches at 0-based position p of text
MatchAt(text, kw, p) ==
    /\ p >= 0
    /\ p + Len(kw) <= Len(text)
    /\ \A i \in 1..Len(kw) : Fold(text[p + i]) = Fold(kw[i])

NextPosResumeInside(p, kw) == p + 1

\* where finditer resumes after a match at p: at its end (one further for an
\* empty match)
NextPos(p, kw) == IF Len(kw) = 0 THEN p + 1 ELSE p + Len(kw)

\* pattern.finditer(text): the spans <<start, end>> found scanning from pos
RECURSIVE FindIter(_, _, _)
FindIter(text, kw, pos) ==
    IF pos + Len(kw) > Len(text) THEN <<>>
    ELSE IF MatchAt(text, kw, pos)
         THEN <<   <<pos, pos + Len(kw)>>   >> \o FindIter(text, kw, NextPos(pos, kw))
         ELSE FindIter(text, kw, pos + 1)

SnippetOf(text, span, window) ==
    ReplaceNewlines(Slice(text, Max(0, span[1] - window),
                                Min(Len(text), span[2] + window)))

find_snippets(text, keyword, window) ==
    LET spans == FindIter(text, keyword, 0)
    IN  [i \in 1..Len(spans) |-> SnippetOf(text, spans[i], window)]

----------------------------------------------------------------------------
(* Files, uploads and documents *)

FileName(dir, base, ext) == [dir |-> dir, base |-> base, ext |-> ext]

\* ext.lower()
LowerExt(ext) == IF ext = ".PDF" THEN ".pdf" ELSE IF ext = ".ZIP" THEN ".zip" ELSE ext

\* name.lower().endswith(suffix)
EndsWithLower(name, suffix) == LowerExt(name.ext) = suffix

\* Path(member).name: the last component of the path
PathName(name) == [name EXCEPT !.dir = ""]

PdfData(pages) == [fmt |-> "pdf", pages |-> pages, members |-> <<>>]
JunkData == [fmt |-> "junk", pages |-> <<>>, members |-> <<>>]
ZipData(members) == [fmt |-> "zip", pages |-> <<>>, members |-> members]

\* "\n".join(page.extract_text() or "" for page in pdf.pages)
RECURSIVE JoinPages(_)
JoinPages(pages) ==
    IF pages = <<>> THEN <<>>
    ELSE IF Len(pages) = 1 THEN Head(pages)
    ELSE Head(pages) \o <<"\n">> \o JoinPages(Tail(pages))

\* pdfplumber.open succeeds on the bytes
PdfOpens(data) == data.fmt = "pdf"

extract_text_from_pdf(data) == JoinPages(data.pages)

\* zipfile.ZipFile succeeds on the bytes
ZipOpens(data) == data.fmt = "zip"

NoFiles == <<>>

\* dest.write_bytes(data) in the directory fs
WriteBytes(fs, dest, data) ==
    [n \in (DOMAIN fs) \cup {dest} |-> IF n = dest THEN data ELSE fs[n]]

\* every member is extracted, whatever its suffix
RECURSIVE ExtractMembersUnfiltered(_, _)
ExtractMembersUnfiltered(members, acc) ==
    IF members = <<>> THEN acc
    ELSE LET m == Head(members)
             dest == PathName(m.name)
         IN  ExtractMembersUnfiltered(Tail(members),
                 [paths |-> Append(acc.paths, dest),
                  files |-> WriteBytes(acc.files, dest, m.data)])

\* the loop over zf.namelist(): acc = [paths, files]
RECURSIVE ExtractMembers(_, _)
ExtractMembers(members, acc) ==
    IF members = <<>> THEN acc
    ELSE LET m == Head(members)
             dest == PathName(m.name)
         IN  IF EndsWithLower(m.name, ".pdf")
             THEN ExtractMembers(Tail(members),
                      [paths |-> Append(acc.paths, dest),
                       files |-> WriteBytes(acc.files, dest, m.data)])
             ELSE ExtractMembers(Tail(members), acc)

----------------------------------------------------------------------------
(* Inputs of the scan run *)

PdfA == PdfData(<< <<"a", "A">> >>)
PdfB == PdfData(<< <<"b">>, <<"a">> >>)

Members ==
    { [name |-> FileName("d", "a", ".pdf"), data |-> PdfB],
      [name |-> FileName("", "b", ".PDF"), data |-> PdfB],
      [name |-> FileName("", "n", ".txt"), data |-> PdfA] }

\* the member lists without repetition, of at most MaxMembers members
MemberLists ==
    UNION { { s \in [1..n -> Members] : \A i, j \in 1..n : s[i] = s[j] => i = j }
            : n \in 0..Min(MaxMembers, Cardinality(Members)) }

Uploads ==
    { [name |-> FileName("", "a", ".pdf"), data |-> PdfA],
      [name |-> FileName("", "c", ".pdf"), data |-> JunkData],
      [name |-> FileName("", "y", ".ZIP"), data |-> JunkData] }
    \cup { [name |-> FileName("", "z", ".zip"), data |-> ZipData(ms)] : ms \in MemberLists }

UploadBatches == UNION { [1..n -> Uploads] : n \in 0..MaxUploads }

KeywordInputs ==
    { <<"a", ",", "b">>, <<"a", ",", " ", "A">>, <<"b", ",", "b">>, <<" ", ",", "b">> }

----------------------------------------------------------------------------
(* The scan action of the script *)

InitPipeline ==
    /\ uploaded_files \in UploadBatches
    /\ keywords_input \in KeywordInputs
    /\ keywords = _parse_keywords(keywords_input)
    /\ context_window = WindowDefault
    /\ pc = "idle"
    /\ temp_dir = "none"
    /\ files = NoFiles
    /\ pdf_paths = <<>>
    /\ up_idx = 0
    /\ idx = 0
    /\ results = <<>>
    /\ errors = <<>>
    /\ progress = [state |-> "none", num |-> 0, den |-> 0]
    /\ outcome = "none"

FindIdle ==
    /\ text_in = <<>>
    /\ kw_in = <<>>
    /\ window_in = 0
    /\ spans_out = <<>>
    /\ snippets_out = <<>>
    /\ fpc = "idle"

\* "Run scan" pressed with uploads present: the temporary directory is created
RunScan ==
    /\ pc = "idle"
    /\ uploaded_files # <<>>
    /\ pc' = "ingest"
    /\ temp_dir' = "open"
    /\ UNCHANGED <<uploaded_files, keywords_input, keywords, context_window, files,
                   pdf_paths, up_idx, idx, results, errors, progress, outcome>>
    /\ UNCHANGED fvars

\* gather_pdf_paths, one upload: an archive that opens
IngestArchive ==
    /\ pc = "ingest"
    /\ up_idx < Len(uploaded_files)
    /\ LET uploaded == uploaded_files[up_idx + 1]
           got == ExtractMembers(uploaded.data.members,
                                 [paths |-> pdf_paths, files |-> files])
       IN  /\ EndsWithLower(uploaded.name, ".zip")
           /\ ZipOpens(uploaded.data)
           /\ pdf_paths' = got.paths
           /\ files' = got.files
    /\ up_idx' = up_idx + 1
    /\ UNCHANGED <<uploaded_files, keywords_input, keywords, context_window, pc,
                   temp_dir, idx, results, errors, progress, outcome>>
    /\ UNCHANGED fvars

\* gather_pdf_paths, one upload: zipfile.ZipFile raises, nothing catches it, the
\* with-block releases the directory and the script run ends
IngestBadArchive ==
    /\ pc = "ingest"
    /\ up_idx < Len(uploaded_files)
    /\ LET uploaded == uploaded_files[up_idx + 1]
       IN  /\ EndsWithLower(uploaded.name, ".zip")
           /\ ~ZipOpens(uploaded.data)
    /\ pc' = "failed"
    /\ temp_dir' = "released"
    /\ files' = NoFiles
    /\ UNCHANGED <<uploaded_files, keywords_input, keywords, context_window,
                   pdf_paths, up_idx, idx, results, errors, progress, outcome>>
    /\ UNCHANGED fvars

\* gather_pdf_paths, one upload: a single file
IngestSingle ==
    /\ pc = "ingest"
    /\ up_idx < Len(uploaded_files)
    /\ LET uploaded == uploaded_files[up_idx + 1]
           dest == uploaded.name
       IN  /\ ~EndsWithLower(uploaded.name, ".zip")
           /\ files' = WriteBytes(files, dest, uploaded.data)
           /\ pdf_paths' = Append(pdf_paths, dest)
    /\ up_idx' = up_idx + 1
    /\ UNCHANGED <<uploaded_files, keywords_input, keywords, context_window, pc,
                   temp_dir, idx, results, errors, progress, outcome>>
    /\ UNCHANGED fvars

\* st.stop() without the release of the directory
StopNoPdfsKeepsDir ==
    /\ pc = "ingest"
    /\ up_idx = Len(uploaded_files)
    /\ pdf_paths = <<>>
    /\ outcome' = "no_pdfs"
    /\ pc' = "stopped"
    /\ UNCHANGED <<uploaded_files, keywords_input, keywords, context_window, temp_dir,
                   files, pdf_paths, up_idx, idx, results, errors, progress>>
    /\ UNCHANGED fvars

\* gather_pdf_paths returned an empty list: st.warning, st.stop()
StopNoPdfs ==
    /\ pc = "ingest"
    /\ up_idx = Len(uploaded_files)
    /\ pdf_paths = <<>>
    /\ outcome' = "no_pdfs"
    /\ pc' = "stopped"
    /\ temp_dir' = "released"
    /\ files' = NoFiles
    /\ UNCHANGED <<uploaded_files, keywords_input, keywords, context_window,
                   pdf_paths, up_idx, idx, results, errors, progress>>
    /\ UNCHANGED fvars

\* results = [], progress = st.progress(0.0)
StartScan ==
    /\ pc = "ingest"
    /\ up_idx = Len(uploaded_files)
    /\ pdf_paths # <<>>
    /\ results' = <<>>
    /\ progress' = [state |-> "open", num |-> 0, den |-> Len(pdf_paths)]
    /\ pc' = "scan"
    /\ UNCHANGED <<uploaded_files, keywords_input, keywords, context_window,
                   temp_dir, files, pdf_paths, up_idx, idx, errors, outcome>>
    /\ UNCHANGED fvars

\* the records of one keyword in one text, in match order
KeywordRecords(name, text, kw, window) ==
    LET snippets == find_snippets(text, kw, window)
    IN  [i \in 1..Len(snippets) |->
            [File |-> name, Keyword |-> kw, Snippet |-> snippets[i]]]

\* the keywords taken last to first
RECURSIVE DocRecordsReversed(_, _, _, _, _)
DocRecordsReversed(name, text, kws, k, window) ==
    IF k > Len(kws) THEN <<>>
    ELSE DocRecordsReversed(name, text, kws, k + 1, window)
         \o KeywordRecords(name, text, kws[k], window)

\* the loop "for kw in keywords" over the keywords from position k on
RECURSIVE DocRecords(_, _, _, _, _)
DocRecords(name, text, kws, k, window) ==
    IF k > Len(kws) THEN <<>>
    ELSE KeywordRecords(name, text, kws[k], window)
         \o DocRecords(name, text, kws, k + 1, window)

\* one iteration of the scan loop whose extraction succeeds
ScanDocument ==
    /\ pc = "scan"
    /\ temp_dir = "open"
    /\ idx < Len(pdf_paths)
    /\ LET pdf_path == pdf_paths[idx + 1]
       IN  /\ pdf_path \in DOMAIN files
           /\ PdfOpens(files[pdf_path])
           /\ results' = results \o DocRecords(pdf_path, extract_text_from_pdf(files[pdf_path]),
                                                keywords, 1, context_window)
    /\ progress' = [progress EXCEPT !.num = idx + 1, !.den = Len(pdf_paths)]
    /\ idx' = idx + 1
    /\ UNCHANGED <<uploaded_files, keywords_input, keywords, context_window, pc,
                   temp_dir, files, pdf_paths, up_idx, errors, outcome>>
    /\ UNCHANGED fvars

\* a failed extraction that leaves the loop (break instead of continue)
ScanFailureAborts ==
    /\ pc = "scan"
    /\ temp_dir = "open"
    /\ idx < Len(pdf_paths)
    /\ LET pdf_path == pdf_paths[idx + 1]
       IN  /\ ~(pdf_path \in DOMAIN files /\ PdfOpens(files[pdf_path]))
           /\ errors' = Append(errors, pdf_path)
    /\ idx' = Len(pdf_paths)
    /\ UNCHANGED <<uploaded_files, keywords_input, keywords, context_window, pc,
                   temp_dir, files, pdf_paths, up_idx, results, progress, outcome>>
    /\ UNCHANGED fvars

\* one iteration of the scan loop whose extraction raises: st.error, continue
ScanFailure ==
    /\ pc = "scan"
    /\ temp_dir = "open"
    /\ idx < Len(pdf_paths)
    /\ LET pdf_path == pdf_paths[idx + 1]
       IN  /\ ~(pdf_path \in DOMAIN files /\ PdfOpens(files[pdf_path]))
           /\ errors' = Append(errors, pdf_path)
    /\ idx' = idx + 1
    /\ UNCHANGED <<uploaded_files, keywords_input, keywords, context_window, pc,
                   temp_dir, files, pdf_paths, up_idx, results, progress, outcome>>
    /\ UNCHANGED fvars

\* the loop is over: progress.empty(), the with-block releases the directory
FinishScan ==
    /\ pc = "scan"
    /\ idx = Len(pdf_paths)
    /\ progress' = [progress EXCEPT !.state = "closed"]
    /\ temp_dir' = "released"
    /\ files' = NoFiles
    /\ pc' = "report"
    /\ UNCHANGED <<uploaded_files, keywords_input, keywords, context_window,
                   pdf_paths, up_idx, idx, results, errors, outcome>>
    /\ UNCHANGED fvars

\* the display of the results
Report ==
    /\ pc = "report"
    /\ outcome' = IF results = <<>> THEN "no_keywords" ELSE "table"
    /\ pc' = "done"
    /\ UNCHANGED <<uploaded_files, keywords_input, keywords, context_window, temp_dir,
                   files, pdf_paths, up_idx, idx, results, errors, progress>>
    /\ UNCHANGED fvars

Init == InitPipeline /\ FindIdle

Next ==
    \/ RunScan
    \/ IngestArchive
    \/ IngestBadArchive
    \/ IngestSingle
    \/ StopNoPdfs
    \/ StartScan
    \/ ScanDocument
    \/ ScanFailure
    \/ FinishScan
    \/ Report

Spec == Init /\ [][Next]_vars

----------------------------------------------------------------------------
(* A direct call of find_snippets *)

Alphabet == {"a", "A", " ", "\n"}

StringsUpTo(n) == UNION { [1..m -> Alphabet] : m \in 0..n }

Texts == StringsUpTo(MaxTextLen)

\* the keywords _parse_keywords can put in the list
ConfigKeywords == { k \in StringsUpTo(MaxKwLen) : _parse_keywords(k) = <<k>> }

Windows == 0..MaxWindow

PipelineIdle ==
    /\ uploaded_files = <<>>
    /\ keywords_input = <<>>
    /\ keywords = <<>>
    /\ context_window = WindowDefault
    /\ pc = "idle"
    /\ temp_dir = "none"
    /\ files = NoFiles
    /\ pdf_paths = <<>>
    /\ up_idx = 0
    /\ idx = 0
    /\ results = <<>>
    /\ errors = <<>>
    /\ progress = [state |-> "none", num |-> 0, den |-> 0]
    /\ outcome = "none"

InitFind ==
    /\ PipelineIdle
    /\ text_in \in Texts
    /\ kw_in \in ConfigKeywords
    /\ window_in \in Windows
    /\ spans_out = <<>>
    /\ snippets_out = <<>>
    /\ fpc = "call"

CallFindSnippets ==
    /\ fpc = "call"
    /\ spans_out' = FindIter(text_in, kw_in, 0)
    /\ snippets_out' = find_snippets(text_in, kw_in, window_in)
    /\ fpc' = "ret"
    /\ UNCHANGED <<text_in, kw_in, window_in>>
    /\ UNCHANGED pvars

NextFind == CallFindSnippets

SpecFind == InitFind /\ [][NextFind]_vars

----------------------------------------------------------------------------
(* Vocabulary of the properties *)

FoldStr(s) == [i \in 1..Len(s) |-> Fold(s[i])]

\* k occurs in t at 0-based position p, letter case ignored
IsOccurrence(t, k, p) ==
    /\ p \in 0..(Len(t) - Len(k))
    /\ FoldStr(SubSeq(t, p + 1, p + Len(k))) = FoldStr(k)

ContainsIgnoringCase(t, k) == \E p \in 0..Len(t) : IsOccurrence(t, k, p)

\* document d of pdf_paths can be extracted from the temporary directory
Extractable(d) == pdf_paths[d] \in DOMAIN files /\ files[pdf_paths[d]].fmt = "pdf"

StoredText(d) == JoinPages(files[pdf_paths[d]].pages)

\* what the ingestion of one upload is to contribute: entries [name, data]
Contribution(u) ==
    IF LowerExt(u.name.ext) = ".zip"
    THEN LET kept == SelectSeq(u.data.members, LAMBDA m : LowerExt(m.name.ext) = ".pdf")
         IN  [i \in 1..Len(kept) |->
                 [name |-> FileName("", kept[i].name.base, kept[i].name.ext),
                  data |-> kept[i].data]]
    ELSE <<[name |-> u.name, data |-> u.data]>>

\* the flattened entries of the first n uploads
RECURSIVE Flattened(_)
Flattened(n) ==
    IF n = 0 THEN <<>> ELSE Flattened(n - 1) \o Contribution(uploaded_files[n])

NamesOf(entries) == [i \in 1..Len(entries) |-> entries[i].name]

----------------------------------------------------------------------------
(* C1 *)

\* the records of the extractable documents among the first n, in order
RECURSIVE RecordsOfReadable(_)
RecordsOfReadable(n) ==
    IF n = 0 THEN <<>>
    ELSE RecordsOfReadable(n - 1)
         \o (IF Extractable(n)
             THEN DocRecords(pdf_paths[n], StoredText(n), keywords, 1, context_window)
             ELSE <<>>)

\* the names of the documents among the first n that cannot be extracted
RECURSIVE NamesOfUnreadable(_)
NamesOfUnreadable(n) ==
    IF n = 0 THEN <<>>
    ELSE NamesOfUnreadable(n - 1) \o (IF Extractable(n) THEN <<>> ELSE <<pdf_paths[n]>>)

\* C1: failure isolation.  While the loop runs, the records are exactly those of
\* the documents processed so far whose extraction succeeded and the
\* diagnostics are exactly the failed ones; the loop is left only after the
\* last document, and the records are not touched afterwards.
C1_FailureIsolation ==
    /\ [](pc = "scan" => /\ results = RecordsOfReadable(idx)
                         /\ errors = NamesOfUnreadable(idx))
    /\ [][(pc = "scan" /\ pc' # "scan") => idx = Len(pdf_paths)]_vars
    /\ [][(pc' \in {"report", "done"}) => (results' = results /\ errors' = errors)]_vars

C1_Witness ==
    /\ pc = "report"
    /\ Len(pdf_paths) >= 3
    /\ Len(errors) >= 1
    /\ errors[1] = pdf_paths[1]
    /\ results # <<>>

----------------------------------------------------------------------------
(* C2 *)

\* C2: progress is reported after each document, failed or not, and has
\* reached total/total when the progress bar is closed.
C2_ProgressAfterEachDocument ==
    /\ (pc = "scan" => progress.num = idx /\ progress.den = Len(pdf_paths))
    /\ (progress.state = "closed" => progress.num = progress.den)

----------------------------------------------------------------------------
(* C3 *)

NumMatches(d, k) == Len(FindIter(StoredText(d), keywords[k], 0))

\* (document, keyword, match) of every record due after n documents
Triples(n) ==
    UNION { UNION { { <<d, k, m>> : m \in 1..NumMatches(d, k) }
                    : k \in 1..Len(keywords) }
            : d \in { e \in 1..n : Extractable(e) } }

Before(t, u) ==
    \/ t[1] < u[1]
    \/ t[1] = u[1] /\ t[2] < u[2]
    \/ t[1] = u[1] /\ t[2] = u[2] /\ t[3] < u[3]

Rank(t, n) == Cardinality({ u \in Triples(n) : Before(u, t) }) + 1

RecordOf(t) ==
    [File |-> pdf_paths[t[1]],
     Keyword |-> keywords[t[2]],
     Snippet |-> SnippetOf(StoredText(t[1]),
                           FindIter(StoredText(t[1]), keywords[t[2]], 0)[t[3]],
                           context_window)]

\* C3: at every point of the loop the records are those of the documents
\* processed so far, sorted by (document, keyword, match).
C3_ResultOrder ==
    pc = "scan" =>
        /\ Len(results) = Cardinality(Triples(idx))
        /\ \A t \in Triples(idx) : results[Rank(t, idx)] = RecordOf(t)

C3_Witness ==
    /\ pc = "scan"
    /\ idx >= 2
    /\ \E i, j \in 1..Len(results) :
          /\ i < j
          /\ results[i].File # results[j].File
    /\ \E i, j \in 1..Len(results) :
          /\ i < j
          /\ results[i].File = results[j].File
          /\ results[i].Keyword # results[j].Keyword
    /\ \E i \in 1..(Len(results) - 1) :
          /\ results[i].File = results[i + 1].File
          /\ results[i].Keyword = results[i + 1].Keyword

----------------------------------------------------------------------------
(* C4 *)

\* C4: every snippet find_snippets returns contains the keyword, letter case
\* ignored.
C4_SnippetContainsKeyword ==
    fpc = "ret" =>
        \A i \in 1..Len(snippets_out) : ContainsIgnoringCase(snippets_out[i], kw_in)

----------------------------------------------------------------------------
(* C5 *)

\* C5: the spans are those of the greedy left-to-right scan without overlap:
\* each is an occurrence, each starts at or after the end of the one before,
\* every occurrence starts inside a span, there is one snippet per span, cut
\* from the text around it, and none when there is no occurrence.
C5_GreedyNonOverlapping ==
    fpc = "ret" =>
        LET n == Len(spans_out)
            s(i) == spans_out[i][1]
            e(i) == spans_out[i][2]
        IN  /\ Len(snippets_out) = n
            /\ \A i \in 1..n : IsOccurrence(text_in, kw_in, s(i)) /\ e(i) = s(i) + Len(kw_in)
            /\ \A i \in 1..(n - 1) : s(i + 1) >= e(i)
            /\ \A p \in 0..Len(text_in) :
                  IsOccurrence(text_in, kw_in, p) => \E i \in 1..n : s(i) <= p /\ p < e(i)
            /\ \A i \in 1..n :
                  Len(snippets_out[i]) =
                      Min(Len(text_in), e(i) + window_in) - Max(0, s(i) - window_in)
            /\ ( \/ text_in = <<>>
                 \/ Len(kw_in) > Len(text_in)
                 \/ ~ContainsIgnoringCase(text_in, kw_in) ) => snippets_out = <<>>

C5_Witness ==
    /\ fpc = "ret"
    /\ Len(snippets_out) = 2
    /\ \E p \in 0..Len(text_in) :
          /\ IsOccurrence(text_in, kw_in, p)
          /\ \A i \in 1..Len(spans_out) : spans_out[i][1] # p

----------------------------------------------------------------------------
(* C6 *)

\* C6: the list of paths is the concatenation, in upload order, of one entry
\* per single upload and one per supported archive member in listing order.
C6_IngestionFlattens ==
    /\ pdf_paths = NamesOf(Flattened(up_idx))
    /\ pc \in {"scan", "report", "done", "stopped"} => up_idx = Len(uploaded_files)

C6_Witness ==
    /\ pc = "scan"
    /\ Len(uploaded_files) = 2
    /\ \E i \in 1..2 :
          /\ Len(uploaded_files[i].data.members) = 3
          /\ Len(Contribution(uploaded_files[i])) = 2
    /\ Len(pdf_paths) = 3

----------------------------------------------------------------------------
(* C7 *)

\* C7: an archive that cannot be opened is skipped: it never ends the run, and
\* the documents of the other uploads are ingested.
C7_BadArchiveSkipped ==
    /\ pc # "failed"
    /\ pc \in {"scan", "report", "done", "stopped"} => up_idx = Len(uploaded_files)

----------------------------------------------------------------------------
(* C8 *)

\* the records of the file called name for keyword kw, letter case ignored
RecordCount(name, kw) ==
    Cardinality({ i \in 1..Len(results) :
                    /\ results[i].File = name
                    /\ FoldStr(results[i].Keyword) = FoldStr(kw) })

\* the occurrences of kw in the extractable documents called name among the
\* first n
RECURSIVE OccurrenceCount(_, _, _)
OccurrenceCount(n, name, kw) ==
    IF n = 0 THEN 0
    ELSE OccurrenceCount(n - 1, name, kw)
         + (IF pdf_paths[n] = name /\ Extractable(n)
            THEN Len(FindIter(StoredText(n), kw, 0))
            ELSE 0)

\* C8: keywords equal up to letter case are one keyword: each occurrence in a
\* document yields one record for it, not one per duplicate.
C8_KeywordsDeduplicated ==
    pc = "scan" =>
        \A d \in 1..idx : \A k \in 1..Len(keywords) :
            RecordCount(pdf_paths[d], keywords[k])
                = OccurrenceCount(idx, pdf_paths[d], keywords[k])

----------------------------------------------------------------------------
(* C9 *)

\* C9: the temporary directory exists from before ingestion to the end of the
\* scan loop, is released and empty at every end of the run, stays released,
\* and a document is consumed only while it exists.
C9_TempDirScoped ==
    /\ [](pc = "idle" => temp_dir = "none")
    /\ [](pc \in {"ingest", "scan"} => temp_dir = "open")
    /\ [](pc \in {"report", "done", "stopped", "failed"}
             => temp_dir = "released" /\ files = NoFiles)
    /\ [][temp_dir = "released" => temp_dir' = "released"]_vars
    /\ [][(idx' # idx \/ files' # files) => (temp_dir = "open" \/ temp_dir' = "released")]_vars
    /\ [][idx' # idx => temp_dir = "open" /\ temp_dir' = "open"]_vars

C9_Witness ==
    /\ pc = "failed"
    /\ temp_dir = "released"
    /\ pdf_paths # <<>>
    /\ files = NoFiles

----------------------------------------------------------------------------
(* C10 *)

\* C10: once gather_pdf_paths has returned, every entry of the list refers to
\* stored bytes equal to those of the upload or member it was made from.
C10_EntriesKeepContent ==
    pc = "scan" =>
        \A i \in 1..Len(pdf_paths) :
            /\ pdf_paths[i] \in DOMAIN files
            /\ files[pdf_paths[i]] = Flattened(up_idx)[i].data

====
